---- MODULE Spec2Model ----
(***************************************************************************)
(* Model of umodbus/functions.py: the Modbus PDU codec (request builders,  *)
(* response builder, write-acknowledgement validator, exception builder).  *)
(* Every function of the file is a pure function; it is modelled as an     *)
(* operator computed byte by byte, and the state machine is a caller that   *)
(* invokes one function at a time and records the call and its outcome.    *)
(***************************************************************************)
EXTENDS Integers, Sequences, FiniteSets, TLC

VARIABLES
    build,      \* interpreter whose struct module runs the code
    pc,         \* caller position: "idle", "called", "acked", "validated"
    call,       \* the arguments of the last call
    result,     \* what the last call returned or raised
    ack,        \* acknowledgement response() built for the request in result
    verdict     \* validate_resp_data's outcome on the acknowledgement

vars == <<build, pc, call, result, ack, verdict>>

(***************************************************************************)
(* Function codes: from . import const as Const                             *)
(***************************************************************************)
READ_COILS == 1
READ_DISCRETE_INPUTS == 2
READ_HOLDING_REGISTERS == 3
READ_INPUT_REGISTER == 4
WRITE_SINGLE_COIL == 5
WRITE_SINGLE_REGISTER == 6
WRITE_MULTIPLE_COILS == 15
WRITE_MULTIPLE_REGISTERS == 16
ERROR_BIAS == 128

(***************************************************************************)
(* Outcomes of a call: bytes returned, a bool returned, None returned, or  *)
(* an exception raised.                                                     *)
(***************************************************************************)
Bytes(b) == [kind |-> "bytes", bytes |-> b, bool |-> FALSE, err |-> "", msg |-> ""]
Bool(b) == [kind |-> "bool", bytes |-> <<>>, bool |-> b, err |-> "", msg |-> ""]
None == [kind |-> "none", bytes |-> <<>>, bool |-> FALSE, err |-> "", msg |-> ""]
Raise(e, m) == [kind |-> "raise", bytes |-> <<>>, bool |-> FALSE, err |-> e, msg |-> m]

(***************************************************************************)
(* Python values that may be a bool, an int or None.  bool is a subclass   *)
(* of int: True == 1 and False == 0 under ==, `in` and arithmetic; None is *)
(* equal only to None.                                                      *)
(***************************************************************************)
PyInt(n) == [isNone |-> FALSE, isBool |-> FALSE, n |-> n]
PyBool(b) == [isNone |-> FALSE, isBool |-> TRUE, n |-> IF b THEN 1 ELSE 0]
PyNone == [isNone |-> TRUE, isBool |-> FALSE, n |-> 0]
PyEq(x, y) == IF x.isNone \/ y.isNone THEN x.isNone /\ y.isNone ELSE x.n = y.n
PyIn(x, list) == \E i \in 1..Len(list) : PyEq(x, list[i])
PyTruthy(x) == x.n # 0

(***************************************************************************)
(* struct.pack / struct.unpack for the big-endian formats the file uses:   *)
(* 'B' (1 byte unsigned), 'H' (2 bytes unsigned), 'h' (2 bytes signed).    *)
(* CPython's struct raises struct.error for a value outside the format's   *)
(* range, for a wrong argument count and for a buffer of the wrong size;   *)
(* MicroPython's struct truncates the value, zero-fills missing arguments, *)
(* ignores surplus ones and only rejects a buffer that is too small.       *)
(***************************************************************************)
Min(a, b) == IF a < b THEN a ELSE b

Width(c) == IF c = "B" THEN 1 ELSE 2

InRange(c, v) ==
    CASE c = "B" -> v \in 0..255
      [] c = "H" -> v \in 0..65535
      [] c = "h" -> v \in -32768..32767

\* the big-endian two's-complement bytes of v in format c
Enc(c, v) ==
    IF c = "B" THEN << v % 256 >>
    ELSE LET u == v % 65536 IN << u \div 256, u % 256 >>

\* the value of the bytes b in format c
Dec(c, b) ==
    IF c = "B" THEN b[1]
    ELSE LET u == b[1] * 256 + b[2] IN
         IF c = "h" /\ u >= 32768 THEN u - 65536 ELSE u

\* struct.calcsize: every format is 2 bytes wide but 'B'
CalcSize(fmt) == 2 * Len(fmt) - Cardinality({i \in 1..Len(fmt) : fmt[i] = "B"})

\* the fields of fmt in order, each encoding its argument (0 when the
\* argument is missing); split in halves to keep the recursion shallow
RECURSIVE EncAll(_, _)
EncAll(fmt, vals) ==
    IF Len(fmt) = 0 THEN <<>>
    ELSE IF Len(fmt) = 1
    THEN Enc(fmt[1], IF Len(vals) = 0 THEN 0 ELSE vals[1])
    ELSE LET h == Len(fmt) \div 2 IN
         EncAll(SubSeq(fmt, 1, h), SubSeq(vals, 1, Min(h, Len(vals))))
         \o EncAll(SubSeq(fmt, h + 1, Len(fmt)),
                   IF h < Len(vals) THEN SubSeq(vals, h + 1, Len(vals)) ELSE <<>>)

struct_pack(fmt, vals) ==
    IF build = "cpython" /\ Len(fmt) # Len(vals)
    THEN Raise("struct.error", "pack expected items for packing")
    ELSE IF build = "cpython"
            /\ \E i \in 1..Len(fmt) : ~InRange(fmt[i], vals[i])
    THEN Raise("struct.error", "argument out of range")
    ELSE Bytes(EncAll(fmt, vals))

RECURSIVE DecAll(_, _)
DecAll(fmt, data) ==
    IF fmt = <<>> THEN <<>>
    ELSE LET w == Width(Head(fmt)) IN
         << Dec(Head(fmt), SubSeq(data, 1, w)) >>
         \o DecAll(Tail(fmt), SubSeq(data, w + 1, Len(data)))

\* [err, msg, vals]: the unpacked tuple, or the exception raised
struct_unpack(fmt, data) ==
    IF build = "cpython" /\ Len(data) # CalcSize(fmt)
    THEN [err |-> "struct.error", msg |-> "unpack requires a buffer", vals |-> <<>>]
    ELSE IF Len(data) < CalcSize(fmt)
    THEN [err |-> "ValueError", msg |-> "buffer too small", vals |-> <<>>]
    ELSE [err |-> "", msg |-> "", vals |-> DecAll(fmt, data)]

\* 'h' * n or 'H' * n
Repeat(c, n) == [i \in 1..n |-> c]


(***************************************************************************)
(* The request builders.                                                    *)
(***************************************************************************)
read_coils(starting_address, quantity) ==
    IF ~(1 <= quantity /\ quantity <= 2000)
    THEN Raise("ValueError", "Invalid number of coils")
    ELSE struct_pack(<<"B", "H", "H">>, <<READ_COILS, starting_address, quantity>>)

read_discrete_inputs(starting_address, quantity) ==
    IF ~(1 <= quantity /\ quantity <= 2000)
    THEN Raise("ValueError", "Invalid number of discrete inputs")
    ELSE struct_pack(<<"B", "H", "H">>,
                     <<READ_DISCRETE_INPUTS, starting_address, quantity>>)

\* faulty variant: the upper limit is excluded
read_holding_registers_short(starting_address, quantity) ==
    IF ~(1 <= quantity /\ quantity < 125)
    THEN Raise("ValueError", "Invalid number of holding registers")
    ELSE struct_pack(<<"B", "H", "H">>,
                     <<READ_HOLDING_REGISTERS, starting_address, quantity>>)

read_holding_registers(starting_address, quantity) ==
    IF ~(1 <= quantity /\ quantity <= 125)
    THEN Raise("ValueError", "Invalid number of holding registers")
    ELSE struct_pack(<<"B", "H", "H">>,
                     <<READ_HOLDING_REGISTERS, starting_address, quantity>>)

read_input_registers(starting_address, quantity) ==
    IF ~(1 <= quantity /\ quantity <= 125)
    THEN Raise("ValueError", "Invalid number of input registers")
    ELSE struct_pack(<<"B", "H", "H">>,
                     <<READ_INPUT_REGISTER, starting_address, quantity>>)

\* output_value is a Python value (bool or int)
write_single_coil(output_address, output_value) ==
    IF ~PyIn(output_value, <<PyInt(0), PyInt(65280), PyBool(TRUE)>>)
    THEN Raise("ValueError", "Illegal coil value")
    ELSE LET normalized ==
                 IF ~PyIn(output_value, <<PyInt(0), PyInt(65280)>>)
                 THEN IF PyTruthy(output_value) THEN PyInt(65280) ELSE PyInt(0)
                 ELSE output_value
         IN  struct_pack(<<"B", "H", "H">>,
                         <<WRITE_SINGLE_COIL, output_address, normalized.n>>)

write_single_register(register_address, register_value, signed) ==
    LET fmt == IF signed THEN "h" ELSE "H" IN
    struct_pack(<<"B", "H", fmt>>,
                <<WRITE_SINGLE_REGISTER, register_address, register_value>>)

(***************************************************************************)
(* Bit packing shared by write_multiple_coils and response().  The values  *)
(* are 0/1 (True/False are the ints 1/0), for which (output << 1) | bit is *)
(* output * 2 + bit.                                                        *)
(***************************************************************************)
\* [value_list[i:i + 8] for i in range(0, len(value_list), 8)]
sectioned_list(value_list) ==
    [k \in 1..((Len(value_list) + 7) \div 8) |->
        SubSeq(value_list, 8 * (k - 1) + 1, Min(8 * k, Len(value_list)))]

\* for bit in byte: output = (output << 1) | bit
RECURSIVE PackByte(_, _)
PackByte(byte, output) ==
    IF byte = <<>> THEN output
    ELSE PackByte(Tail(byte), output * 2 + Head(byte))

\* faulty variant: the packing the source has commented out,
\* output = sum(v << i for i, v in enumerate(byte))
RECURSIVE SumLsbFirst(_)
SumLsbFirst(byte) ==
    IF byte = <<>> THEN 0 ELSE Head(byte) + 2 * SumLsbFirst(Tail(byte))

output_value_lsb_first(value_list) ==
    LET sl == sectioned_list(value_list) IN
    [k \in 1..Len(sl) |-> SumLsbFirst(sl[k])]

output_value(value_list) ==
    LET sl == sectioned_list(value_list) IN
    [k \in 1..Len(sl) |-> PackByte(sl[k], 0)]

\* faulty variant: the limit of the read requests (2000) instead of 0x07B0
write_multiple_coils_limit_2000(starting_address, value_list) ==
    IF ~(1 <= Len(value_list) /\ Len(value_list) <= 2000)
    THEN Raise("ValueError", "Invalid quantity of outputs")
    ELSE LET ov == output_value(value_list) IN
         struct_pack(<<"B", "H", "H", "B">> \o Repeat("B", Len(ov)),
                     <<WRITE_MULTIPLE_COILS, starting_address, Len(value_list),
                       ((Len(value_list) - 1) \div 8) + 1>> \o ov)

write_multiple_coils(starting_address, value_list) ==
    IF ~(1 <= Len(value_list) /\ Len(value_list) <= 1968)
    THEN Raise("ValueError", "Invalid quantity of outputs")
    ELSE LET ov == output_value(value_list) IN
         struct_pack(<<"B", "H", "H", "B">> \o Repeat("B", Len(ov)),
                     <<WRITE_MULTIPLE_COILS, starting_address, Len(value_list),
                       ((Len(value_list) - 1) \div 8) + 1>> \o ov)

\* faulty variant: the limit of the read requests (125) instead of 123
write_multiple_registers_limit_125(starting_address, register_values, signed) ==
    LET quantity == Len(register_values) IN
    IF ~(1 <= quantity /\ quantity <= 125)
    THEN Raise("ValueError", "Invalid number of registers")
    ELSE struct_pack(<<"B", "H", "H", "B">>
                        \o Repeat(IF signed THEN "h" ELSE "H", quantity),
                     <<WRITE_MULTIPLE_REGISTERS, starting_address, quantity,
                       quantity * 2>> \o register_values)

write_multiple_registers(starting_address, register_values, signed) ==
    LET quantity == Len(register_values) IN
    IF ~(1 <= quantity /\ quantity <= 123)
    THEN Raise("ValueError", "Invalid number of registers")
    ELSE struct_pack(<<"B", "H", "H", "B">>
                        \o Repeat(IF signed THEN "h" ELSE "H", quantity),
                     <<WRITE_MULTIPLE_REGISTERS, starting_address, quantity,
                       quantity * 2>> \o register_values)

(***************************************************************************)
(* validate_resp_data.  value and quantity are Python values (None when    *)
(* not passed).                                                             *)
(***************************************************************************)
\* faulty variant: the signed flag is ignored, the field is always unpacked as 'h'
validate_resp_data_always_signed(data, function_code, address, value, quantity, signed) ==
    LET fmt == <<"H", "h">>
        u == struct_unpack(fmt, data)
    IN
    IF function_code \in {WRITE_SINGLE_COIL, WRITE_SINGLE_REGISTER}
    THEN IF u.err # "" THEN Raise(u.err, u.msg)
         ELSE IF address = u.vals[1] /\ PyEq(value, PyInt(u.vals[2]))
         THEN Bool(TRUE) ELSE Bool(FALSE)
    ELSE IF function_code \in {WRITE_MULTIPLE_COILS, WRITE_MULTIPLE_REGISTERS}
    THEN IF u.err # "" THEN Raise(u.err, u.msg)
         ELSE IF address = u.vals[1] /\ PyEq(quantity, PyInt(u.vals[2]))
         THEN Bool(TRUE) ELSE Bool(FALSE)
    ELSE Bool(FALSE)

validate_resp_data(data, function_code, address, value, quantity, signed) ==
    LET fmt == <<"H", IF signed THEN "h" ELSE "H">>
        u == struct_unpack(fmt, data)
    IN
    IF function_code \in {WRITE_SINGLE_COIL, WRITE_SINGLE_REGISTER}
    THEN IF u.err # "" THEN Raise(u.err, u.msg)
         ELSE IF address = u.vals[1] /\ PyEq(value, PyInt(u.vals[2]))
         THEN Bool(TRUE) ELSE Bool(FALSE)
    ELSE IF function_code \in {WRITE_MULTIPLE_COILS, WRITE_MULTIPLE_REGISTERS}
    THEN IF u.err # "" THEN Raise(u.err, u.msg)
         ELSE IF address = u.vals[1] /\ PyEq(quantity, PyInt(u.vals[2]))
         THEN Bool(TRUE) ELSE Bool(FALSE)
    ELSE Bool(FALSE)

(***************************************************************************)
(* response().  signed is one bool, or a sequence with one flag per value. *)
(***************************************************************************)
SignedAll(b) == [each |-> FALSE, flag |-> b, flags |-> <<>>]
SignedEach(f) == [each |-> TRUE, flag |-> FALSE, flags |-> f]

\* faulty variant: a sequence of flags is treated like one flag, its first
response_first_flag_only(function_code, request_register_addr, request_register_qty, request_data, value_list, signed) ==
    IF function_code \in {READ_COILS, READ_DISCRETE_INPUTS}
    THEN LET ov == output_value(value_list) IN
         struct_pack(<<"B", "B">> \o Repeat("B", Len(ov)),
                     <<function_code, ((Len(value_list) - 1) \div 8) + 1>> \o ov)
    ELSE IF function_code \in {READ_HOLDING_REGISTERS, READ_INPUT_REGISTER}
    THEN LET quantity == Len(value_list) IN
         IF ~(1 <= quantity /\ quantity <= 125)
         THEN Raise("ValueError", "invalid number of registers")
         ELSE LET fmt == IF ~signed.each
                         THEN Repeat(IF signed.flag THEN "h" ELSE "H", quantity)
                         ELSE Repeat(IF signed.flags[1] THEN "h" ELSE "H",
                                     quantity)
              IN  struct_pack(<<"B", "B">> \o fmt,
                              <<function_code, quantity * 2>> \o value_list)
    ELSE IF function_code \in {WRITE_SINGLE_COIL, WRITE_SINGLE_REGISTER}
    THEN struct_pack(<<"B", "H", "B", "B">>,
                     <<function_code, request_register_addr>> \o request_data)
    ELSE IF function_code \in {WRITE_MULTIPLE_COILS, WRITE_MULTIPLE_REGISTERS}
    THEN struct_pack(<<"B", "H", "H">>,
                     <<function_code, request_register_addr, request_register_qty>>)
    ELSE None

response(function_code, request_register_addr, request_register_qty, request_data, value_list, signed) ==
    IF function_code \in {READ_COILS, READ_DISCRETE_INPUTS}
    THEN LET ov == output_value(value_list) IN
         struct_pack(<<"B", "B">> \o Repeat("B", Len(ov)),
                     <<function_code, ((Len(value_list) - 1) \div 8) + 1>> \o ov)
    ELSE IF function_code \in {READ_HOLDING_REGISTERS, READ_INPUT_REGISTER}
    THEN LET quantity == Len(value_list) IN
         IF ~(1 <= quantity /\ quantity <= 125)
         THEN Raise("ValueError", "invalid number of registers")
         ELSE LET fmt == IF ~signed.each
                         THEN Repeat(IF signed.flag THEN "h" ELSE "H", quantity)
                         ELSE [i \in 1..Len(signed.flags) |->
                                  IF signed.flags[i] THEN "h" ELSE "H"]
              IN  struct_pack(<<"B", "B">> \o fmt,
                              <<function_code, quantity * 2>> \o value_list)
    ELSE IF function_code \in {WRITE_SINGLE_COIL, WRITE_SINGLE_REGISTER}
    THEN struct_pack(<<"B", "H", "B", "B">>,
                     <<function_code, request_register_addr>> \o request_data)
    ELSE IF function_code \in {WRITE_MULTIPLE_COILS, WRITE_MULTIPLE_REGISTERS}
    THEN struct_pack(<<"B", "H", "H">>,
                     <<function_code, request_register_addr, request_register_qty>>)
    ELSE None

exception_response(function_code, exception_code) ==
    struct_pack(<<"B", "B">>, <<ERROR_BIAS + function_code, exception_code>>)

(***************************************************************************)
(* The inputs the caller draws from.                                        *)
(***************************************************************************)
MaxBits == 9        \* every coil list up to this length is tried
MaxRegs == 2        \* every register list up to this length is tried
MaxData == 4        \* every response buffer up to this length is tried

Addresses == {0, 1, 255, 256, 4660, 65535}
ListAddresses == {0, 4660, 65535}
ReadQuantities ==
    {-1, 0, 1, 2, 124, 125, 126, 127, 255, 256, 1999, 2000, 2001, 2002,
     65535, 65536}
CoilValues ==
    {PyBool(TRUE), PyBool(FALSE)}
    \cup {PyInt(n) : n \in {-1, 0, 1, 2, 5, 255, 256, 65279, 65280, 65281, 65535}}
RegisterValues ==
    {-32769, -32768, -1, 0, 1, 255, 256, 32767, 32768, 65535, 65536}
ListRegisterValues == {-32768, -1, 1, 258, 32767, 65535}
ByteValues == {0, 1, 255}
FunctionCodes ==
    {0, READ_COILS, READ_DISCRETE_INPUTS, READ_HOLDING_REGISTERS,
     READ_INPUT_REGISTER, WRITE_SINGLE_COIL, WRITE_SINGLE_REGISTER, 7,
     WRITE_MULTIPLE_COILS, WRITE_MULTIPLE_REGISTERS, 17, 127, 128, 131, 255}
ExceptionCodes == {0, 1, 2, 11, 255}

SeqsUpTo(S, n) == UNION {[1..k -> S] : k \in 0..n}

\* long coil lists around the limit of 1968, in a few bit patterns
LongBitLengths == {15, 16, 17, 1967, 1968, 1969, 1970}
BitPatterns == {
    [i \in 1..8 |-> 1],
    [i \in 1..8 |-> 0],
    <<1, 0, 1, 1, 0, 0, 0, 1>>,
    <<0, 1, 1>> }
Cycle(pat, n) == [i \in 1..n |-> pat[((i - 1) % Len(pat)) + 1]]
CoilLists ==
    SeqsUpTo({0, 1}, MaxBits)
    \cup {Cycle(p, n) : p \in BitPatterns, n \in LongBitLengths}

\* long register lists around the limits of 123 and 125
LongRegLengths == {122, 123, 124, 125, 126, 127}
SignedRamp(n) == [i \in 1..n |-> ((i * 523) % 65536) - 32768]
UnsignedRamp(n) == [i \in 1..n |-> (i * 523) % 65536]
MixedRamp(n) == [i \in 1..n |-> IF i % 2 = 1 THEN -i ELSE 65536 - i]
AlternatingFlags(n) == [i \in 1..n |-> i % 2 = 1]

\* (values, signed) pairs for write_multiple_registers: signed is one bool
UniformRegisterLists ==
    (SeqsUpTo(ListRegisterValues, MaxRegs) \X {SignedAll(TRUE), SignedAll(FALSE)})
    \cup {<<SignedRamp(n), SignedAll(TRUE)>> : n \in LongRegLengths}
    \cup {<<UnsignedRamp(n), SignedAll(FALSE)>> : n \in LongRegLengths}
    \cup {<<UnsignedRamp(n), SignedAll(TRUE)>> : n \in {1, 123}}

\* (values, signed) pairs for response(): signed may also be one flag per value
ResponseRegisterLists ==
    UniformRegisterLists
    \cup {<<v, SignedEach(f)>> :
             <<v, f>> \in UNION {[1..k -> ListRegisterValues] \X [1..k -> BOOLEAN] :
                                  k \in 0..MaxRegs}}
    \cup {<<MixedRamp(n), SignedEach(AlternatingFlags(n))>> : n \in LongRegLengths}

\* (value, quantity) as a caller passes them to validate_resp_data
Expectations ==
    {<<v, PyNone>> : v \in {PyNone, PyInt(0), PyInt(1), PyInt(-1), PyInt(65535),
                            PyBool(TRUE)}}
    \cup {<<PyNone, PyInt(q)>> : q \in {1, 65535}}

(***************************************************************************)
(* The caller.  From "idle" it calls one function; a single-write request  *)
(* may then be acknowledged with response() and the acknowledgement         *)
(* validated against the arguments the request was built from.              *)
(***************************************************************************)
NoCall ==
    [op |-> "none", function_code |-> 0, address |-> 0, quantity |-> PyNone,
     value |-> PyNone, values |-> <<>>, signed |-> SignedAll(TRUE),
     data |-> <<>>, exception_code |-> 0]

NoVerdict == [data |-> <<>>, signed |-> TRUE, out |-> None]

Init ==
    /\ build \in {"cpython", "micropython"}
    /\ pc = "idle"
    /\ call = NoCall
    /\ result = None
    /\ ack = None
    /\ verdict = NoVerdict

Called(c, r) ==
    /\ pc' = "called"
    /\ call' = c
    /\ result' = r
    /\ UNCHANGED <<build, ack, verdict>>

ReadCoils ==
    /\ pc = "idle"
    /\ \E a \in Addresses, q \in ReadQuantities :
           Called([NoCall EXCEPT !.op = "read_coils", !.address = a,
                                 !.quantity = PyInt(q)],
                  read_coils(a, q))

ReadDiscreteInputs ==
    /\ pc = "idle"
    /\ \E a \in Addresses, q \in ReadQuantities :
           Called([NoCall EXCEPT !.op = "read_discrete_inputs", !.address = a,
                                 !.quantity = PyInt(q)],
                  read_discrete_inputs(a, q))

ReadHoldingRegisters ==
    /\ pc = "idle"
    /\ \E a \in Addresses, q \in ReadQuantities :
           Called([NoCall EXCEPT !.op = "read_holding_registers", !.address = a,
                                 !.quantity = PyInt(q)],
                  read_holding_registers(a, q))

ReadInputRegisters ==
    /\ pc = "idle"
    /\ \E a \in Addresses, q \in ReadQuantities :
           Called([NoCall EXCEPT !.op = "read_input_registers", !.address = a,
                                 !.quantity = PyInt(q)],
                  read_input_registers(a, q))

WriteSingleCoil ==
    /\ pc = "idle"
    /\ \E a \in Addresses, v \in CoilValues :
           Called([NoCall EXCEPT !.op = "write_single_coil", !.address = a,
                                 !.value = v],
                  write_single_coil(a, v))

WriteSingleRegister ==
    /\ pc = "idle"
    /\ \E a \in Addresses, v \in RegisterValues, s \in BOOLEAN :
           Called([NoCall EXCEPT !.op = "write_single_register", !.address = a,
                                 !.value = PyInt(v), !.signed = SignedAll(s)],
                  write_single_register(a, v, s))

WriteMultipleCoils ==
    /\ pc = "idle"
    /\ \E a \in ListAddresses, vl \in CoilLists :
           Called([NoCall EXCEPT !.op = "write_multiple_coils", !.address = a,
                                 !.values = vl],
                  write_multiple_coils(a, vl))

WriteMultipleRegisters ==
    /\ pc = "idle"
    /\ \E a \in ListAddresses, p \in UniformRegisterLists :
           Called([NoCall EXCEPT !.op = "write_multiple_registers", !.address = a,
                                 !.values = p[1], !.signed = p[2]],
                  write_multiple_registers(a, p[1], p[2].flag))

ValidateRespData ==
    /\ pc = "idle"
    /\ \E d \in SeqsUpTo(ByteValues, MaxData), fc \in FunctionCodes,
          a \in {0, 1, 65535}, e \in Expectations, s \in BOOLEAN :
           Called([NoCall EXCEPT !.op = "validate_resp_data", !.data = d,
                                 !.function_code = fc, !.address = a,
                                 !.value = e[1], !.quantity = e[2],
                                 !.signed = SignedAll(s)],
                  validate_resp_data(d, fc, a, e[1], e[2], s))

\* response() for ReadCoils / ReadDiscreteInputs
ResponseBits ==
    /\ pc = "idle"
    /\ \E fc \in {READ_COILS, READ_DISCRETE_INPUTS}, vl \in CoilLists :
           Called([NoCall EXCEPT !.op = "response", !.function_code = fc,
                                 !.values = vl],
                  response(fc, 0, 0, <<>>, vl, SignedAll(TRUE)))

\* response() for ReadHoldingRegisters / ReadInputRegisters
ResponseRegisters ==
    /\ pc = "idle"
    /\ \E fc \in {READ_HOLDING_REGISTERS, READ_INPUT_REGISTER},
          p \in ResponseRegisterLists :
           Called([NoCall EXCEPT !.op = "response", !.function_code = fc,
                                 !.values = p[1], !.signed = p[2]],
                  response(fc, 0, 0, <<>>, p[1], p[2]))

\* response() for the write function codes and for unknown ones
ResponseWrite ==
    /\ pc = "idle"
    /\ \E fc \in FunctionCodes \ {READ_COILS, READ_DISCRETE_INPUTS,
                                  READ_HOLDING_REGISTERS, READ_INPUT_REGISTER},
          a \in ListAddresses, q \in {1, 123, 1968},
          d \in UNION {[1..k -> ByteValues] : k \in 1..3} :
           Called([NoCall EXCEPT !.op = "response", !.function_code = fc,
                                 !.address = a, !.quantity = PyInt(q), !.data = d],
                  response(fc, a, q, d, <<>>, SignedAll(TRUE)))

ExceptionResponse ==
    /\ pc = "idle"
    /\ \E fc \in 0..255, ec \in ExceptionCodes :
           Called([NoCall EXCEPT !.op = "exception_response",
                                 !.function_code = fc, !.exception_code = ec],
                  exception_response(fc, ec))

\* the server acknowledges a single write: it echoes the request's address
\* and the two value bytes of the request
Acknowledge ==
    /\ pc = "called"
    /\ call.op \in {"write_single_coil", "write_single_register"}
    /\ result.kind = "bytes"
    /\ ack' = response(result.bytes[1], call.address, 0,
                       SubSeq(result.bytes, 4, 5), <<>>, SignedAll(TRUE))
    /\ pc' = "acked"
    /\ UNCHANGED <<build, call, result, verdict>>

\* the client validates the acknowledgement, without its function-code byte,
\* against the arguments the request was built from
ValidateAck ==
    /\ pc = "acked"
    /\ ack.kind = "bytes"
    /\ \E s \in (IF call.op = "write_single_register"
                 THEN {call.signed.flag} ELSE BOOLEAN) :
          LET d == SubSeq(ack.bytes, 2, Len(ack.bytes)) IN
          verdict' = [data |-> d, signed |-> s,
                      out |-> validate_resp_data(d, ack.bytes[1], call.address,
                                                 call.value, PyNone, s)]
    /\ pc' = "validated"
    /\ UNCHANGED <<build, call, result, ack>>

\* the client validates the slave's verbatim echo of the request: the four
\* payload bytes (address, value) of the request PDU itself
ValidateEcho ==
    /\ pc = "called"
    /\ call.op \in {"write_single_coil", "write_single_register"}
    /\ result.kind = "bytes"
    /\ \E s \in (IF call.op = "write_single_register"
                 THEN {call.signed.flag} ELSE BOOLEAN) :
          LET d == SubSeq(result.bytes, 2, Len(result.bytes)) IN
          verdict' = [data |-> d, signed |-> s,
                      out |-> validate_resp_data(d, result.bytes[1], call.address,
                                                 call.value, PyNone, s)]
    /\ pc' = "validated"
    /\ UNCHANGED <<build, call, result, ack>>

Return ==
    /\ pc # "idle"
    /\ pc' = "idle"
    /\ call' = NoCall
    /\ result' = None
    /\ ack' = None
    /\ verdict' = NoVerdict
    /\ UNCHANGED build

Next ==
    \/ ReadCoils
    \/ ReadDiscreteInputs
    \/ ReadHoldingRegisters
    \/ ReadInputRegisters
    \/ WriteSingleCoil
    \/ WriteSingleRegister
    \/ WriteMultipleCoils
    \/ WriteMultipleRegisters
    \/ ValidateRespData
    \/ ResponseBits
    \/ ResponseRegisters
    \/ ResponseWrite
    \/ ExceptionResponse
    \/ Acknowledge
    \/ ValidateAck
    \/ ValidateEcho
    \/ Return

Spec == Init /\ [][Next]_vars

(***************************************************************************)
(* Properties.  Fields of a PDU are read back here with plain arithmetic,  *)
(* independently of the struct operators above.                             *)
(***************************************************************************)
U16(b, i) == b[i] * 256 + b[i + 1]
S16(b, i) == IF U16(b, i) >= 32768 THEN U16(b, i) - 65536 ELSE U16(b, i)
BitAt(byte, k) == (byte \div (2 ^ k)) % 2
IsBytes(b) == \A i \in 1..Len(b) : b[i] \in 0..255
Representable(v, signed) ==
    IF signed THEN v \in -32768..32767 ELSE v \in 0..65535
RaisedValueError == result.kind = "raise" /\ result.err = "ValueError" /\ result.bytes = <<>>

ReadOps ==
    {"read_coils", "read_discrete_inputs", "read_holding_registers",
     "read_input_registers"}
ReadCode(op) ==
    CASE op = "read_coils" -> 1
      [] op = "read_discrete_inputs" -> 2
      [] op = "read_holding_registers" -> 3
      [] op = "read_input_registers" -> 4
ReadMax(op) ==
    IF op \in {"read_coils", "read_discrete_inputs"} THEN 2000 ELSE 125

\* C1: each read-request builder succeeds exactly when the quantity is in its
\* range (1..2000 for coils and discrete inputs, 1..125 for holding and input
\* registers) and then returns the 5 bytes code, address (big-endian),
\* quantity (big-endian); for any other quantity it raises ValueError and
\* returns no PDU.
C1_ReadRequests ==
    (pc = "called" /\ call.op \in ReadOps) =>
        IF call.quantity.n \in 1..ReadMax(call.op)
        THEN /\ result.kind = "bytes"
             /\ Len(result.bytes) = 5
             /\ IsBytes(result.bytes)
             /\ result.bytes[1] = ReadCode(call.op)
             /\ U16(result.bytes, 2) = call.address
             /\ U16(result.bytes, 4) = call.quantity.n
        ELSE RaisedValueError

C1_Witness ==
    /\ pc = "called"
    /\ call.op = "read_holding_registers"
    /\ call.quantity.n = 125
    /\ call.address = 4660
    /\ result.kind = "bytes"
    /\ result.bytes = <<3, 18, 52, 0, 125>>

\* C2 (as claimed): write_single_coil(a, true) returns the bytes of
\* write_single_coil(a, 0xFF00), write_single_coil(a, false) those of
\* write_single_coil(a, 0x0000), every integer other than 0x0000 and 0xFF00
\* raises ValueError, and every PDU returned carries 0x0000 or 0xFF00.
C2_Claimed ==
    (pc = "called" /\ call.op = "write_single_coil") =>
        /\ (call.value.isBool /\ call.value.n = 1) =>
               result = write_single_coil(call.address, PyInt(65280))
        /\ (call.value.isBool /\ call.value.n = 0) =>
               result = write_single_coil(call.address, PyInt(0))
        /\ (~call.value.isBool /\ call.value.n \notin {0, 65280}) =>
               RaisedValueError
        /\ result.kind = "bytes" =>
               /\ Len(result.bytes) = 5
               /\ U16(result.bytes, 4) \in {0, 65280}

\* C3 (as claimed): validate_resp_data never raises, whatever the length of
\* data; it returns a bool, and false for every function code other than
\* 5, 6, 15 and 16.
C3_Claimed ==
    (pc = "called" /\ call.op = "validate_resp_data") =>
        /\ result.kind = "bool"
        /\ call.function_code \notin {5, 6, 15, 16} => result.bool = FALSE

\* the packed bytes of a coil PDU and the bits they were packed from
IsCoilPacking ==
    /\ pc = "called"
    /\ result.kind = "bytes"
    /\ Len(call.values) >= 1
    /\ \/ call.op = "write_multiple_coils"
       \/ call.op = "response" /\ call.function_code \in {1, 2}
PackedBytes ==
    IF call.op = "write_multiple_coils"
    THEN SubSeq(result.bytes, 7, Len(result.bytes))
    ELSE SubSeq(result.bytes, 3, Len(result.bytes))
GroupLen(i) == Min(8, Len(call.values) - 8 * i)

\* C4 (as claimed): the j-th bit of group i is bit 7-j of output byte i, and
\* a final group shorter than 8 bits is zero-padded on the right.
C4_Claimed ==
    IsCoilPacking =>
        \A i \in 0..(Len(PackedBytes) - 1) :
            /\ \A j \in 0..(GroupLen(i) - 1) :
                   BitAt(PackedBytes[i + 1], 7 - j) = call.values[8 * i + j + 1]
            /\ \A j \in GroupLen(i)..7 : BitAt(PackedBytes[i + 1], 7 - j) = 0

\* C4 (amended): the j-th bit of a group of k bits is bit k-1-j of output
\* byte i: the first bit of a full group is the most-significant bit of its
\* byte, and a final group of k < 8 bits occupies the k low-order bits of its
\* byte, zero-padded on the left (the 8-k high-order bits are 0).
C4_BitPacking ==
    IsCoilPacking =>
        /\ Len(PackedBytes) * 8 >= Len(call.values)
        /\ (Len(PackedBytes) - 1) * 8 < Len(call.values)
        /\ \A i \in 0..(Len(PackedBytes) - 1) :
            /\ \A j \in 0..(GroupLen(i) - 1) :
                   BitAt(PackedBytes[i + 1], GroupLen(i) - 1 - j)
                       = call.values[8 * i + j + 1]
            /\ \A k \in GroupLen(i)..7 : BitAt(PackedBytes[i + 1], k) = 0
            /\ PackedBytes[i + 1] \in 0..255

C4_Witness ==
    /\ IsCoilPacking
    /\ call.op = "response"
    /\ call.values = <<1, 0, 1, 1, 0, 0, 0, 1, 1>>
    /\ PackedBytes = <<177, 1>>

\* C5: write_multiple_coils succeeds exactly when 1 <= len(values) <= 1968
\* and raises ValueError otherwise; on success the quantity field is n, the
\* byte-count field is ceil(n/8) (which fits in 8 bits), that many packed
\* bytes follow, and the PDU is 6 + byteCount bytes long.
C5_WriteMultipleCoils ==
    (pc = "called" /\ call.op = "write_multiple_coils") =>
        LET n == Len(call.values) IN
        IF n \in 1..1968
        THEN /\ result.kind = "bytes"
             /\ IsBytes(result.bytes)
             /\ result.bytes[1] = 15
             /\ U16(result.bytes, 2) = call.address
             /\ U16(result.bytes, 4) = n
             /\ result.bytes[6] = ((n - 1) \div 8) + 1
             /\ result.bytes[6] * 8 >= n
             /\ (result.bytes[6] - 1) * 8 < n
             /\ Len(result.bytes) - 6 = result.bytes[6]
        ELSE RaisedValueError

C5_Witness ==
    /\ pc = "called"
    /\ call.op = "write_multiple_coils"
    /\ Len(call.values) = 1968
    /\ result.kind = "bytes"
    /\ result.bytes[6] = 246
    /\ Len(result.bytes) = 252

\* C6: validating the four payload bytes of write_single_register(a, v, s),
\* v representable in 16 bits under s, against (a, v, s) returns true; and
\* validate_resp_data returns false for WriteSingleRegister whenever the
\* address in data differs from the expected address or the value decoded
\* from data under the flag differs from the expected value.
C6_RegisterEcho ==
    /\ (/\ pc = "validated"
        /\ call.op = "write_single_register"
        /\ Representable(call.value.n, call.signed.flag)
        /\ verdict.data = SubSeq(result.bytes, 2, 5))
       => verdict.out = Bool(TRUE)
    /\ (/\ pc = "called"
        /\ call.op = "validate_resp_data"
        /\ call.function_code = 6
        /\ Len(call.data) = 4
        /\ ~call.value.isNone /\ ~call.value.isBool
        /\ \/ U16(call.data, 1) # call.address
           \/ (IF call.signed.flag THEN S16(call.data, 3) ELSE U16(call.data, 3))
                  # call.value.n)
       => result = Bool(FALSE)

C6_Witness ==
    /\ pc = "validated"
    /\ call.op = "write_single_register"
    /\ call.value.n = 65535
    /\ ~call.signed.flag
    /\ ack = None
    /\ verdict.data = <<18, 52, 255, 255>>
    /\ verdict.out = Bool(TRUE)

\* C7 (as claimed): for every function code in 0..255 exception_response
\* returns two bytes, function code OR 0x80 and the exception code.
C7_Claimed ==
    (pc = "called" /\ call.op = "exception_response") =>
        /\ result.kind = "bytes"
        /\ Len(result.bytes) = 2
        /\ result.bytes[1] = (IF call.function_code >= 128
                              THEN call.function_code
                              ELSE call.function_code + 128)
        /\ result.bytes[2] = call.exception_code

IsRegisterResponse ==
    /\ pc = "called"
    /\ call.op = "response"
    /\ call.function_code \in {3, 4}
FlagOf(k) == IF call.signed.each THEN call.signed.flags[k] ELSE call.signed.flag

C9_WriteMultipleRegisters ==
    (pc = "called" /\ call.op = "write_multiple_registers") =>
        LET q == Len(call.values) IN
        IF q \notin 1..123 THEN RaisedValueError
        ELSE (\A k \in 1..q : Representable(call.values[k], call.signed.flag))
             => /\ result.kind = "bytes"
                /\ IsBytes(result.bytes)
                /\ Len(result.bytes) = 6 + 2 * q
                /\ result.bytes[1] = 16
                /\ U16(result.bytes, 2) = call.address
                /\ U16(result.bytes, 4) = q
                /\ result.bytes[6] = 2 * q
                /\ \A k \in 1..q :
                       (IF call.signed.flag THEN S16(result.bytes, 2 * k + 5)
                        ELSE U16(result.bytes, 2 * k + 5)) = call.values[k]

C9_Witness ==
    /\ pc = "called"
    /\ call.op = "write_multiple_registers"
    /\ Len(call.values) = 123
    /\ call.signed.flag
    /\ result.kind = "bytes"
    /\ Len(result.bytes) = 252
    /\ result.bytes[6] = 246
    /\ S16(result.bytes, 7) = call.values[1]
    /\ call.values[1] < 0

\* C10 (as claimed): for every coil value v that write_single_coil accepts
\* (true, false, 0x0000, 0xFF00), the acknowledgement response() builds from
\* the request's address and value bytes equals the request, and validating
\* it (without its function-code byte) against (address, v, signed=false)
\* returns true.
C10_Claimed ==
    (/\ pc = "validated"
     /\ call.op = "write_single_coil"
     /\ call.value.isBool \/ call.value.n \in {0, 65280}
     /\ ack # None
     /\ ~verdict.signed)
    => /\ ack = result
       /\ verdict.data = SubSeq(ack.bytes, 2, 5)
       /\ verdict.out = Bool(TRUE)

====
